---- MODULE Spec2Model ----
(***************************************************************************)
(* pupyl: vector index (pupyl/indexer/facets.py), bucketed image store     *)
(* (pupyl/storage/database.py) and the coordinator that keeps both id      *)
(* spaces aligned (pupyl/search.py).                                       *)
(*                                                                         *)
(* Vectors are tuples of integers of one fixed dimension.  The ANN engine  *)
(* is modelled by what the program relies on: items addressed by insertion *)
(* slot, angular distance, nearest neighbours ordered by (distance, id).   *)
(***************************************************************************)
EXTENDS Integers, Sequences, FiniteSets, TLC

VARIABLES
    tree,          \* Index.tree: the items held by the open handle, id i at tree[i+1]
    is_new_index,  \* Index._is_new_index
    opened,        \* whether an Index handle is open on the data directory
    file,          \* the persisted index file data_dir/pupyl.index: NoFile or its items
    images,        \* image payload files of the store: path -> bytes
    meta,          \* metadata files of the store: id -> record
    import_images, \* ImageDatabase._import_images
    npy,           \* feature cache files {bucket}/{id}.npy: id -> vector
    last,          \* the last completed operation, its inputs, outcome and pre-state
    ops,           \* number of operations run so far
    pc,            \* position of the operation that is run step by step
    tmp_file,      \* the scratch index file a rebuild writes: NoFile or its items
    ranks,         \* index(): the ranks of the import tasks, in completion order
    pool,          \* index(): the tasks of the worker pool, rank -> state
    log            \* index(): the events of the call, in the order they happened

vars == <<tree, is_new_index, opened, file, images, meta, import_images, npy, last, ops,
          pc, tmp_file, ranks, pool, log>>

idxVars == <<tree, is_new_index, opened, file>>
storeVars == <<images, meta, import_images>>
stepVars == <<pc, tmp_file, ranks, pool, log>>

----------------------------------------------------------------------------
(* Bounds *)

MaxLen == 4        \* most vectors an index handle is grown to
MaxStoreOps == 4   \* operations per behaviour of the image store
BucketSize == 2    \* ImageDatabase._bucket_size (the bucket_size argument)
MaxBatch == 2      \* most images one index() call scans
MaxCoordOps == 3   \* coordinator operations per behaviour
MaxRemoveBatch == 1 \* most images one index() call scans before a remove()
MaxRemoveOps == 3  \* coordinator operations per behaviour that ends in remove()
MaxStored == 2     \* most vectors of the persisted index a stepped operation starts from
MaxSwapOps == 2    \* stepped operations per behaviour
MaxScan == 2       \* most files a source holding files that fail holds; a source
                   \* of images that all go through holds one more
MaxExtOps == 1     \* parallel index() calls per behaviour
MaxGroupLen == 3   \* most vectors of an index group_by is asked on
MaxTop == 2        \* largest top group_by is asked for
MaxRequests == 6   \* latest requests of one _get_url call that log keeps

(* Program constants *)

DupNum == 1599               \* .05 threshold: d <= .05  <=>  cos >= 799/800,
DupDen == 640000             \* i.e. 640000 * (1 - cos^2) <= 1599 when cos > 0

\* max_retries of FileIO._get_url
max_retries == 3

\* a directory tree holding no file
NoFiles == [p \in {} |-> 0]

\* no file at Index.path
NoFile == [format |-> "none", items |-> <<>>]

Zero == <<0, 0>>
Vectors == {Zero, <<1, 0>>, <<0, 1>>, <<20, 1>>, <<1, -1>>}
Positions == 0 .. (MaxLen + 1)

----------------------------------------------------------------------------
(* Vector arithmetic *)

RECURSIVE SumFrom(_, _)
SumFrom(v, i) == IF i > Len(v) THEN 0 ELSE v[i] + SumFrom(v, i + 1)

\* sum(tensor)
SumVec(v) == SumFrom(v, 1)

RECURSIVE DotFrom(_, _, _)
DotFrom(p, q, i) == IF i > Len(p) THEN 0 ELSE p[i] * q[i] + DotFrom(p, q, i + 1)

Dot(p, q) == DotFrom(p, q, 1)

\* cos(t, p) > cos(t, r), i.e. p is strictly nearer to t than r in angular distance
Nearer(t, p, r) ==
    LET tp == Dot(t, p)
        tr == Dot(t, r)
        pp == Dot(p, p)
        rr == Dot(r, r)
    IN  IF tp >= 0 /\ tr >= 0 THEN tp * tp * rr > tr * tr * pp
        ELSE IF tp >= 0 THEN TRUE
        ELSE IF tr >= 0 THEN FALSE
        ELSE tp * tp * rr < tr * tr * pp

\* angular distance sqrt(2 - 2 cos(p, q)) <= .05
WithinDup(p, q) ==
    LET pq == Dot(p, q)
        b  == Dot(p, p) * Dot(q, q)
    IN  /\ b > 0
        /\ pq > 0
        /\ DupDen * (b - pq * pq) <= DupNum * b

----------------------------------------------------------------------------
(* The ANN engine as Index uses it *)

\* AnnoyIndex.add_item(i, v): slot i is set, the item count becomes
\* max(count, i + 1) and the slots in between are zero-filled
add_item(items, i, v) ==
    IF i < Len(items) THEN [items EXCEPT ![i + 1] = v]
    ELSE [j \in 1 .. (i + 1) |->
            IF j <= Len(items) THEN items[j] ELSE IF j = i + 1 THEN v ELSE Zero]

\* AnnoyIndex.get_nns_by_vector(t, n) over the ids in `ids`: nearest first,
\* equal distances in id order
RECURSIVE get_nns_by_vector(_, _, _, _)
get_nns_by_vector(items, t, ids, n) ==
    IF n <= 0 \/ ids = {} THEN <<>>
    ELSE LET b == CHOOSE i \in ids : \A j \in ids \ {i} :
                     \/ Nearer(t, items[i + 1], items[j + 1])
                     \/ (~Nearer(t, items[j + 1], items[i + 1]) /\ i < j)
         IN  <<b>> \o get_nns_by_vector(items, t, ids \ {b}, n - 1)

\* AnnoyIndex.save then AnnoyIndex.load: the file holds the built items
save(items) == [format |-> "annoy", items |-> items]
load(f) == f.items

\* Index.__len__
len(items) == Len(items)

\* Index.index(tensor): id of the most similar stored vector
index(items, tensor) == get_nns_by_vector(items, tensor, 0 .. (len(items) - 1), 1)[1]

\* Index.item(position, top): the `top` ids nearest to the stored item `position`
item(items, position, top) ==
    get_nns_by_vector(items, items[position + 1], 0 .. (len(items) - 1), top)

\* Index.__getitem__(position)
getitem(items, position) ==
    LET i == IF position >= 0 THEN position ELSE len(items) - (0 - position)
    IN  IF i \in 0 .. (len(items) - 1)
        THEN [raised |-> "none", value |-> items[i + 1]]
        ELSE [raised |-> "IndexError", value |-> <<>>]

----------------------------------------------------------------------------
(* Index.append *)

is_null_never(tensor) == FALSE

\* the null-tensor test: sum(tensor) == 0.
is_null(tensor) == SumVec(tensor) = 0

\* the new-index branch of append
append_new(items, tensor, check_unique) ==
    LET checks  == check_unique /\ len(items) > 1
        nearest == index(items, tensor)
        result  == item(items, nearest, 1)
        dup     == checks /\ WithinDup(items[nearest + 1], items[result[1] + 1])
    IN  [tree   |-> IF dup THEN items ELSE add_item(items, len(items), tensor),
         warned |-> dup]

\* append on a new (volatile) index, called from the rebuild loop
tmp_append(st, tensor, check_unique) ==
    IF st.raised # "none" THEN st
    ELSE IF is_null(tensor) THEN [st EXCEPT !.raised = "NullTensorError"]
    ELSE LET r == append_new(st.tree, tensor, check_unique)
         IN  [tree |-> r.tree, warned |-> st.warned \/ r.warned, raised |-> "none"]

\* for value in values: tmp_idx.append(value, check_unique), the state after each
\* call bound before the next one runs
RECURSIVE tmp_append_values(_, _, _, _)
tmp_append_values(st, values, i, check_unique) ==
    IF i > Len(values) THEN st
    ELSE CHOOSE r \in { tmp_append_values(nx, values, i + 1, check_unique) :
                           nx \in {tmp_append(st, values[i], check_unique)} } : TRUE

\* Index.append(tensor, check_unique) on a handle h = [tree, is_new_index, file]
append(h, tensor, check_unique) ==
    IF is_null(tensor)
    THEN [tree |-> h.tree, file |-> h.file, raised |-> "NullTensorError",
          warned |-> FALSE, ret |-> <<>>]
    ELSE IF h.is_new_index
    THEN CHOOSE a \in { [tree |-> r.tree, file |-> h.file, raised |-> "none",
                          warned |-> r.warned, ret |-> <<>>] :
                            r \in {append_new(h.tree, tensor, check_unique)} } : TRUE
    ELSE CHOOSE a \in { IF tmp.raised # "none"
                        THEN [tree |-> h.tree, file |-> h.file, raised |-> tmp.raised,
                              warned |-> tmp.warned, ret |-> <<>>]
                        ELSE [tree |-> load(save(tmp.tree)), file |-> save(tmp.tree),
                              raised |-> "none", warned |-> tmp.warned, ret |-> <<>>] :
                            tmp \in {tmp_append_values(
                                        [tree |-> <<>>, warned |-> FALSE, raised |-> "none"],
                                        Append(h.tree, tensor), 1, check_unique)} } : TRUE

----------------------------------------------------------------------------
(* Index.remove and Index.pop *)

RECURSIVE remove_copy_noshift(_, _, _, _, _)
remove_copy_noshift(items, position, it, shrink, tmp) ==
    IF it >= len(items) THEN tmp
    ELSE IF it = position THEN remove_copy_noshift(items, position, it + 1, TRUE, tmp)
    ELSE CHOOSE r \in { remove_copy_noshift(items, position, it + 1, shrink, nx) :
                           nx \in {add_item(tmp, it, items[it + 1])} } : TRUE

\* the copy loop of remove: every item but `position`, later ids one lower
RECURSIVE remove_copy(_, _, _, _, _)
remove_copy(items, position, it, shrink, tmp) ==
    IF it >= len(items) THEN tmp
    ELSE IF it = position THEN remove_copy(items, position, it + 1, TRUE, tmp)
    ELSE CHOOSE r \in { remove_copy(items, position, it + 1, shrink, nx) :
                           nx \in {add_item(tmp, IF shrink THEN it - 1 ELSE it,
                                             items[it + 1])} } : TRUE

remove_range_first(h, position) ==
    IF position > len(h.tree)
    THEN [tree |-> h.tree, file |-> h.file, raised |-> "IndexError",
          warned |-> FALSE, ret |-> <<>>]
    ELSE IF h.is_new_index
    THEN [tree |-> h.tree, file |-> h.file, raised |-> "IndexNotBuildYet",
          warned |-> FALSE, ret |-> <<>>]
    ELSE LET tmp == remove_copy(h.tree, position, 0, FALSE, <<>>)
         IN  [tree |-> load(save(tmp)), file |-> save(tmp), raised |-> "none",
              warned |-> FALSE, ret |-> <<>>]

\* Index.remove(position)
remove(h, position) ==
    IF h.is_new_index
    THEN [tree |-> h.tree, file |-> h.file, raised |-> "IndexNotBuildYet",
          warned |-> FALSE, ret |-> <<>>]
    ELSE IF position > len(h.tree)
    THEN [tree |-> h.tree, file |-> h.file, raised |-> "IndexError",
          warned |-> FALSE, ret |-> <<>>]
    ELSE CHOOSE r \in { [tree |-> load(save(tmp)), file |-> save(tmp),
                          raised |-> "none", warned |-> FALSE, ret |-> <<>>] :
                            tmp \in {remove_copy(h.tree, position, 0, FALSE, <<>>)} } : TRUE

\* Index.pop(position); has_position is FALSE when the argument is omitted
pop(h, has_position, position) ==
    LET given == has_position /\ position # 0
        got   == IF given THEN getitem(h.tree, position) ELSE getitem(h.tree, -1)
        pos   == IF given THEN position ELSE len(h.tree) + (-1)
    IN  IF got.raised # "none"
        THEN [tree |-> h.tree, file |-> h.file, raised |-> got.raised,
              warned |-> FALSE, ret |-> <<>>]
        ELSE LET r == remove(h, pos)
             IN  [r EXCEPT !.ret = IF r.raised = "none" THEN got.value ELSE <<>>]

----------------------------------------------------------------------------
(* Opening and closing an Index handle *)

\* AnnoyIndex.load(path) raises OSError on a file that is not a saved index
load_raises(f) == f.format # "annoy"

\* the load of Index.__init__ taking whatever file is at the path as an index
open_index_any(f) ==
    IF f.format # "none"
    THEN [tree |-> f.items, is_new_index |-> FALSE, raised |-> "none"]
    ELSE [tree |-> <<>>, is_new_index |-> TRUE, raised |-> "none"]

\* Index.__init__ from `if os.path.isfile(self._path)` on, f being the file at
\* the path
open_index(f) ==
    IF f.format # "none"
    THEN IF load_raises(f)
         THEN [tree |-> <<>>, is_new_index |-> FALSE, raised |-> "FileIsNotAnIndex"]
         ELSE [tree |-> load(f), is_new_index |-> FALSE, raised |-> "none"]
    ELSE [tree |-> <<>>, is_new_index |-> TRUE, raised |-> "none"]

\* Index.__exit__: the index file after the handle h is closed
exit(h, exc) ==
    IF ~exc /\ h.is_new_index THEN save(h.tree) ELSE h.file

\* no step-by-step operation is running
StepInit ==
    /\ pc = "idle"
    /\ tmp_file = NoFile
    /\ ranks = <<>>
    /\ pool = NoFiles
    /\ log = <<>>

Handle == [tree |-> tree, is_new_index |-> is_new_index, file |-> file]

NoLast == [op |-> "init", raised |-> "none"]

IdxLast(name, tensor, cu, has_position, position, r) ==
    [op |-> name, tensor |-> tensor, check_unique |-> cu,
     has_position |-> has_position, position |-> position,
     raised |-> r.raised, warned |-> r.warned, ret |-> r.ret,
     pre_tree |-> tree, pre_new |-> is_new_index, pre_file |-> file]

IdxOpen ==
    /\ ~opened
    /\ LET o == open_index(file)
       IN  /\ tree' = o.tree
           /\ is_new_index' = o.is_new_index
    /\ opened' = TRUE
    /\ last' = [op |-> "open", raised |-> "none", prev |-> last]
    /\ UNCHANGED <<file, images, meta, import_images, npy, ops>>
    /\ UNCHANGED stepVars

IdxClose ==
    /\ opened
    /\ file' = exit(Handle, FALSE)
    /\ tree' = <<>>
    /\ opened' = FALSE
    /\ last' = [op |-> "close", raised |-> "none", pre_tree |-> tree,
                 pre_new |-> is_new_index, pre_file |-> file]
    /\ UNCHANGED <<is_new_index, images, meta, import_images, npy, ops>>
    /\ UNCHANGED stepVars

\* the with-block is left by the exception the last operation raised
IdxAbort ==
    /\ opened
    /\ last.raised # "none"
    /\ file' = exit(Handle, TRUE)
    /\ tree' = <<>>
    /\ opened' = FALSE
    /\ last' = [op |-> "abort", raised |-> "none", pre_tree |-> tree,
                 pre_new |-> is_new_index, pre_file |-> file]
    /\ UNCHANGED <<is_new_index, images, meta, import_images, npy, ops>>
    /\ UNCHANGED stepVars

IdxAppend(tensor, cu) ==
    /\ opened
    /\ len(tree) < MaxLen \/ SumVec(tensor) = 0
    /\ LET r == append(Handle, tensor, cu)
       IN  /\ tree' = r.tree
           /\ file' = r.file
           /\ last' = IdxLast("append", tensor, cu, FALSE, 0, r)
    /\ UNCHANGED <<is_new_index, opened, images, meta, import_images, npy, ops>>
    /\ UNCHANGED stepVars

IdxRemove(position) ==
    /\ opened
    /\ LET r == remove(Handle, position)
       IN  /\ tree' = r.tree
           /\ file' = r.file
           /\ last' = IdxLast("remove", <<>>, FALSE, TRUE, position, r)
    /\ UNCHANGED <<is_new_index, opened, images, meta, import_images, npy, ops>>
    /\ UNCHANGED stepVars

IdxPop(has_position, position) ==
    /\ opened
    /\ LET r == pop(Handle, has_position, position)
       IN  /\ tree' = r.tree
           /\ file' = r.file
           /\ last' = IdxLast("pop", <<>>, FALSE, has_position, position, r)
    /\ UNCHANGED <<is_new_index, opened, images, meta, import_images, npy, ops>>
    /\ UNCHANGED stepVars

IdxInit ==
    /\ tree = <<>>
    /\ is_new_index = FALSE
    /\ opened = FALSE
    /\ file = NoFile
    /\ images = NoFiles
    /\ meta = NoFiles
    /\ import_images = TRUE
    /\ npy = NoFiles
    /\ last = NoLast
    /\ ops = 0
    /\ StepInit

IdxNext ==
    \/ IdxOpen
    \/ IdxClose
    \/ IdxAbort
    \/ \E tensor \in Vectors, cu \in BOOLEAN : IdxAppend(tensor, cu)
    \/ \E position \in Positions : IdxRemove(position)
    \/ \E position \in Positions : IdxPop(TRUE, position)
    \/ IdxPop(FALSE, 0)

SpecIndex == IdxInit /\ [][IdxNext]_vars

----------------------------------------------------------------------------
(* The image store: pupyl/storage/database.py *)

\* image sources: what a uri resolves to
SrcA == [name |-> "a.jpg", ext |-> "jpg", reachable |-> TRUE, image |-> TRUE,
         animated |-> FALSE, data |-> "A", seen |-> TRUE]
SrcB == [name |-> "b.gif", ext |-> "gif", reachable |-> TRUE, image |-> TRUE,
         animated |-> TRUE, data |-> "B", seen |-> TRUE]
SrcC == [name |-> "c.png", ext |-> "png", reachable |-> TRUE, image |-> TRUE,
         animated |-> FALSE, data |-> "C", seen |-> TRUE]
Sources == {SrcA, SrcB, SrcC}

\* sources that fail somewhere in index(): a uri that cannot be fetched when
\* the scan reads it; one the scan could fetch but the import cannot; a file
\* that is not an image; an image the extractor raises on; an image whose
\* embedding is the zero vector
SrcDown == [name |-> "down.jpg", ext |-> "jpg", reachable |-> FALSE, image |-> TRUE,
            animated |-> FALSE, data |-> "D", seen |-> FALSE]
SrcLost == [name |-> "lost.jpg", ext |-> "jpg", reachable |-> FALSE, image |-> TRUE,
            animated |-> FALSE, data |-> "L", seen |-> TRUE]
SrcText == [name |-> "t.txt", ext |-> "txt", reachable |-> TRUE, image |-> FALSE,
            animated |-> FALSE, data |-> "T", seen |-> TRUE]
SrcHard == [name |-> "h.jpg", ext |-> "jpg", reachable |-> TRUE, image |-> TRUE,
            animated |-> FALSE, data |-> "H", seen |-> TRUE]
SrcZero == [name |-> "z.jpg", ext |-> "jpg", reachable |-> TRUE, image |-> TRUE,
            animated |-> FALSE, data |-> "Z", seen |-> TRUE]

\* what insert is called with on the store alone
StoreSources == Sources \cup {SrcText}

\* a file system map with one file written, moved or deleted
put(files, path, content) ==
    [p \in DOMAIN files \cup {path} |-> IF p = path THEN content ELSE files[p]]
delete(files, path) == [p \in DOMAIN files \ {path} |-> files[p]]
move(files, src, dst) == put(delete(files, src), dst, files[src])

\* ImageDatabase.what_bucket
what_bucket(id) == id \div BucketSize

\* ImageDatabase.mount_file_name(index, extension=ext)
mount_file_name(id, ext) == [bucket |-> what_bucket(id), name |-> id, ext |-> ext]

\* FileIO.extension(uri), without the dot mount_file_name strips
extension(src) == src.ext

\* ImageIO.is_animated_gif(uri)
is_animated_gif(src) == src.animated

\* the bytes insert stores: the source as it is when animated, else the
\* resized image re-encoded as JPEG
stored_bytes(src) ==
    IF is_animated_gif(src) THEN [data |-> src.data, enc |-> "source"]
    ELSE [data |-> src.data, enc |-> "jpeg"]

\* ImageDatabase.list_images: the stored paths with a listed extension
list_images(files) == {p \in DOMAIN files : p.ext \in {"jpg", "gif"}}

\* ImageDatabase.__len__
db_len(files) == Cardinality(list_images(files))

\* ImageDatabase.save_image_metadata(index, uri)
save_image_metadata(db, id, src) ==
    IF ~src.reachable THEN [db EXCEPT !.raised = "URLError"]
    ELSE IF ~src.image THEN db
    ELSE [db EXCEPT !.meta = put(db.meta, id,
              [id |-> id,
               original_file_name |-> src.name,
               internal_path |-> mount_file_name(id, extension(src))])]

\* ImageDatabase.insert(index, uri) on db = [images, meta, raised]
insert(db, import, id, src) ==
    LET mounted_file == mount_file_name(id, extension(src))
        saves == import /\ mounted_file \notin DOMAIN db.images
    IN  IF saves /\ ~src.reachable THEN [db EXCEPT !.raised = "URLError"]
        ELSE IF saves /\ ~src.image THEN [db EXCEPT !.raised = "FileIsNotImage"]
        ELSE save_image_metadata(
                 [db EXCEPT !.images =
                     IF saves THEN put(db.images, mounted_file, stored_bytes(src))
                     ELSE db.images],
                 id, src)

\* one pass of the loop of remove: the record old_id takes the place of old_id - 1
shift_down(db, old_id) ==
    LET new_id == old_id - 1
    IN  IF old_id \notin DOMAIN db.meta \/ new_id \notin DOMAIN db.meta
        THEN [db EXCEPT !.raised = "IndexError"]
        ELSE LET image_old_id == db.meta[old_id].internal_path
                 image_new_id == db.meta[new_id].internal_path
             IN  IF image_old_id \notin DOMAIN db.images
                 THEN [db EXCEPT !.raised = "FileNotFoundError"]
                 ELSE [images |-> move(db.images, image_old_id, image_new_id),
                       meta |-> put(db.meta, new_id,
                                    [db.meta[old_id] EXCEPT
                                        !.id = new_id,
                                        !.internal_path = image_new_id]),
                       raised |-> "none"]

\* for old_id in range(index + 1, len(self)), n being len(self) at loop entry
RECURSIVE shift_loop(_, _, _)
shift_loop(db, old_id, n) ==
    IF db.raised # "none" \/ old_id >= n THEN db
    ELSE CHOOSE r \in { shift_loop(nx, old_id + 1, n) :
                           nx \in {shift_down(db, old_id)} } : TRUE

\* the closing os.remove of remove
remove_top(db) ==
    LET top == db_len(db.images)
    IN  IF db.raised # "none" THEN db
        ELSE IF top \notin DOMAIN db.meta
        THEN [db EXCEPT !.raised = "FileNotFoundError"]
        ELSE [db EXCEPT !.meta = delete(db.meta, top)]

\* ImageDatabase.remove(index)
db_remove(db, id) ==
    CHOOSE r \in { remove_top(shifted) :
                      shifted \in {shift_loop(db, id + 1, db_len(db.images))} } : TRUE

Db == [images |-> images, meta |-> meta, raised |-> "none"]

DbLast(name, id, src, r) ==
    [op |-> name, id |-> id, src |-> src, raised |-> r.raised,
     pre_images |-> images, pre_meta |-> meta]

StoreInsert(id, src) ==
    /\ ops < MaxStoreOps
    /\ id <= Cardinality(DOMAIN meta)
    /\ LET r == insert(Db, import_images, id, src)
       IN  /\ images' = r.images
           /\ meta' = r.meta
           /\ last' = DbLast("db_insert", id, src, r)
    /\ ops' = ops + 1
    /\ UNCHANGED <<idxVars, import_images, npy>>
    /\ UNCHANGED stepVars

StoreRemove(id) ==
    /\ ops < MaxStoreOps
    /\ LET r == db_remove(Db, id)
       IN  /\ images' = r.images
           /\ meta' = r.meta
           /\ last' = DbLast("db_remove", id, SrcA, r)
    /\ ops' = ops + 1
    /\ UNCHANGED <<idxVars, import_images, npy>>
    /\ UNCHANGED stepVars

StoreInit ==
    /\ tree = <<>>
    /\ is_new_index = FALSE
    /\ opened = FALSE
    /\ file = NoFile
    /\ images = NoFiles
    /\ meta = NoFiles
    /\ import_images \in BOOLEAN
    /\ npy = NoFiles
    /\ last = NoLast
    /\ ops = 0
    /\ StepInit

StoreNext ==
    \/ \E id \in 0 .. MaxStoreOps, src \in StoreSources : StoreInsert(id, src)
    \/ \E id \in 0 .. MaxStoreOps : StoreRemove(id)

SpecStore == StoreInit /\ [][StoreNext]_vars

----------------------------------------------------------------------------
(* The coordinator, extreme_mode=False: pupyl/search.py *)

\* Extractors.extract(uri): the embedding of the image bytes read
extract(bytes) ==
    CASE bytes.data = "A" -> <<1, 0>>
      [] bytes.data = "B" -> <<0, 1>>
      [] bytes.data = "C" -> <<20, 1>>
      [] bytes.data = "Z" -> Zero

\* the extractor raises on this image instead of giving an embedding
extract_raises(bytes) == bytes.data = "H"

\* extract_save reading the image of rank 0 whatever the rank is
extract_save_first(c, rank) ==
    IF rank \notin DOMAIN c.meta \/ 0 \notin DOMAIN c.meta
    THEN [c EXCEPT !.raised = "IndexError"]
    ELSE IF rank \in DOMAIN c.npy THEN c
    ELSE LET uri == c.meta[0].internal_path
         IN  IF uri \notin DOMAIN c.images
             THEN [c EXCEPT !.raised = "FileNotFoundError"]
             ELSE IF extract_raises(c.images[uri])
             THEN [c EXCEPT !.raised = "FileIsNotImage"]
             ELSE [c EXCEPT !.npy = put(c.npy, rank, extract(c.images[uri]))]

\* Extractors.extract_save(path, uri) for the cache slot of `rank`, the uri
\* being the internal_path load_image_metadata(rank) gives
extract_save(c, rank) ==
    IF rank \notin DOMAIN c.meta THEN [c EXCEPT !.raised = "IndexError"]
    ELSE IF rank \in DOMAIN c.npy THEN c
    ELSE LET uri == c.meta[rank].internal_path
         IN  IF uri \notin DOMAIN c.images
             THEN [c EXCEPT !.raised = "FileNotFoundError"]
             ELSE IF extract_raises(c.images[uri])
             THEN [c EXCEPT !.raised = "FileIsNotImage"]
             ELSE [c EXCEPT !.npy = put(c.npy, rank, extract(c.images[uri]))]

\* self.image_database.insert(rank, uri_from_file) within index();
\* c = [images, meta, npy, tree, is_new_index, file, raised, warned]
index_insert(c, import, rank, src) ==
    CHOOSE s \in { [c EXCEPT !.images = db.images, !.meta = db.meta,
                             !.raised = db.raised] :
                      db \in {insert([images |-> c.images, meta |-> c.meta,
                                      raised |-> "none"], import, rank, src)} } : TRUE

\* indexer.append(extractor.load(npy of rank), check_unique) within index()
index_append(c, rank, check_unique) ==
    CHOOSE s \in { [c EXCEPT !.tree = r.tree, !.file = r.file, !.raised = r.raised,
                             !.warned = c.warned \/ r.warned] :
                      r \in {append([tree |-> c.tree, is_new_index |-> c.is_new_index,
                                     file |-> c.file], c.npy[rank], check_unique)} } : TRUE

\* the body of the loop of index(): insert, extract_save, append for one rank,
\* each step run on the outcome of the one before unless that one raised
index_one(c, import, rank, src, check_unique) ==
    CHOOSE r \in { IF cached.raised # "none" THEN cached
                   ELSE index_append(cached, rank, check_unique) :
                      cached \in { IF stored.raised # "none" THEN stored
                                   ELSE extract_save(stored, rank) :
                                      stored \in {index_insert(c, import, rank, src)} } } : TRUE

\* for rank, uri_from_file in enumerate(scan_images(uri))
RECURSIVE index_loop(_, _, _, _, _)
index_loop(c, import, batch, rank, check_unique) ==
    IF c.raised # "none" \/ rank >= Len(batch) THEN c
    ELSE CHOOSE r \in { index_loop(nx, import, batch, rank + 1, check_unique) :
                           nx \in {index_one(c, import, rank, batch[rank + 1],
                                             check_unique)} } : TRUE

\* PupylImageSearch.index(uri, check_unique=...) on the data directory
\* d = [images, meta, npy, file]; batch is what scan_images(uri) yields
coord_index(d, import, batch, check_unique) ==
    CHOOSE r \in { [images |-> c.images, meta |-> c.meta, npy |-> c.npy,
                    file |-> exit([tree |-> c.tree, is_new_index |-> c.is_new_index,
                                   file |-> c.file], c.raised # "none"),
                    raised |-> c.raised, warned |-> c.warned] :
                      c \in { index_loop([images |-> d.images, meta |-> d.meta,
                                          npy |-> d.npy, tree |-> o.tree,
                                          is_new_index |-> o.is_new_index,
                                          file |-> d.file, raised |-> "none",
                                          warned |-> FALSE],
                                         import, batch, 0, check_unique) :
                                 o \in {open_index(d.file)} } } : TRUE

\* remove taking the record out of the store before the index is touched
coord_remove_store_first(d, id) ==
    CHOOSE out \in {
        IF db.raised # "none"
        THEN [images |-> db.images, meta |-> db.meta, npy |-> d.npy, file |-> d.file,
              raised |-> db.raised, warned |-> FALSE]
        ELSE CHOOSE done \in {
                 [images |-> db.images, meta |-> db.meta, npy |-> d.npy,
                  file |-> IF r.raised # "none" THEN d.file
                           ELSE exit([tree |-> r.tree, is_new_index |-> FALSE,
                                      file |-> r.file], FALSE),
                  raised |-> r.raised, warned |-> FALSE] :
                    r \in { remove([tree |-> o.tree, is_new_index |-> o.is_new_index,
                                    file |-> d.file], id) :
                               o \in {open_index(d.file)} } } : TRUE :
          db \in {db_remove([images |-> d.images, meta |-> d.meta,
                             raised |-> "none"], id)} } : TRUE

\* PupylImageSearch.remove(index)
coord_remove(d, id) ==
    CHOOSE out \in {
        IF r.raised # "none"
        THEN [images |-> d.images, meta |-> d.meta, npy |-> d.npy, file |-> d.file,
              raised |-> r.raised, warned |-> FALSE]
        ELSE CHOOSE done \in {
                 [images |-> db.images, meta |-> db.meta, npy |-> d.npy,
                  file |-> exit([tree |-> r.tree, is_new_index |-> FALSE,
                                 file |-> r.file], FALSE),
                  raised |-> db.raised, warned |-> FALSE] :
                    db \in {db_remove([images |-> d.images, meta |-> d.meta,
                                       raised |-> "none"], id)} } : TRUE :
          r \in { remove([tree |-> o.tree, is_new_index |-> o.is_new_index,
                          file |-> d.file], id) :
                     o \in {open_index(d.file)} } } : TRUE

DataDir == [images |-> images, meta |-> meta, npy |-> npy, file |-> file]

\* the sequences of at most MaxBatch sources
Batches == UNION { [1 .. n -> Sources] : n \in 0 .. MaxBatch }

CoordIndex(batch, check_unique) ==
    /\ ops < MaxCoordOps
    /\ \E r \in {coord_index(DataDir, import_images, batch, check_unique)} :
           /\ images' = r.images
           /\ meta' = r.meta
           /\ npy' = r.npy
           /\ file' = r.file
           /\ last' = [op |-> "index", batch |-> batch, check_unique |-> check_unique,
                       raised |-> r.raised, warned |-> r.warned]
    /\ ops' = ops + 1
    /\ UNCHANGED <<tree, is_new_index, opened, import_images>>
    /\ UNCHANGED stepVars

CoordRemove(id) ==
    /\ ops < MaxCoordOps
    /\ \E r \in {coord_remove(DataDir, id)} :
           /\ images' = r.images
           /\ meta' = r.meta
           /\ npy' = r.npy
           /\ file' = r.file
           /\ last' = [op |-> "coord_remove", id |-> id, raised |-> r.raised,
                       warned |-> FALSE]
    /\ ops' = ops + 1
    /\ UNCHANGED <<tree, is_new_index, opened, import_images>>
    /\ UNCHANGED stepVars

\* PupylImageSearch.__init__ on a fresh data directory
CoordInit ==
    /\ tree = <<>>
    /\ is_new_index = FALSE
    /\ opened = FALSE
    /\ file = NoFile
    /\ images = NoFiles
    /\ meta = NoFiles
    /\ import_images = TRUE
    /\ npy = NoFiles
    /\ last = NoLast
    /\ ops = 0
    /\ StepInit

CoordNext ==
    \/ \E batch \in Batches, check_unique \in BOOLEAN : CoordIndex(batch, check_unique)
    \/ \E id \in 0 .. (MaxBatch * MaxCoordOps) : CoordRemove(id)

Spec == CoordInit /\ [][CoordNext]_vars

\* the coordinator with short scans, followed up to its removals
RemoveBatches == UNION { [1 .. n -> Sources] : n \in 0 .. MaxRemoveBatch }

RemoveNext ==
    \/ \E batch \in RemoveBatches, check_unique \in BOOLEAN :
          ops < MaxRemoveOps /\ CoordIndex(batch, check_unique)
    \/ \E id \in 0 .. (MaxRemoveBatch * MaxRemoveOps) :
          ops < MaxRemoveOps /\ CoordRemove(id)

SpecRemove == CoordInit /\ [][RemoveNext]_vars

----------------------------------------------------------------------------
(* The coordinator's search, extreme_mode=False *)

\* the angular distance of p and q, kept as the two integers that fix it:
\* sqrt(2 - 2 * dot / sqrt(norms))
distance(p, q) == [dot |-> Dot(p, q), norms |-> Dot(p, p) * Dot(q, q)]

\* the distance is 0.0: p and q point the same way
is_zero(d) == d.dot > 0 /\ d.dot * d.dot = d.norms

\* if kwargs.get('distance'): the truth value of the distance passed
attaches(d) == ~is_zero(d)

\* ImageDatabase.load_image_metadata(index, distance=d) when given, else
\* load_image_metadata(index)
load_image_metadata(md, id, given, d) ==
    IF id \notin DOMAIN md
    THEN [raised |-> "IndexError", id |-> id, metadata |-> <<>>,
          has_distance |-> FALSE, distance |-> d]
    ELSE [raised |-> "none", id |-> id, metadata |-> md[id],
          has_distance |-> given /\ attaches(d), distance |-> d]

\* Index.search(tensor, results=n, return_distances=...): the ids nearest to
\* tensor, each with its distance; nothing from an index that is not built
index_search(h, tensor, n) ==
    IF h.is_new_index THEN <<>>
    ELSE CHOOSE r \in { [k \in 1 .. Len(ids) |->
                            [id |-> ids[k],
                             distance |-> distance(tensor, h.tree[ids[k] + 1])]] :
                          ids \in {get_nns_by_vector(h.tree, tensor,
                                                     0 .. (len(h.tree) - 1), n)} } : TRUE

\* what search yields for one result of the index
search_result(md, res, return_metadata, return_distances) ==
    IF return_metadata
    THEN load_image_metadata(md, res.id, return_distances, res.distance)
    ELSE [raised |-> "none", id |-> res.id, metadata |-> <<>>,
          has_distance |-> return_distances, distance |-> res.distance]

\* the results yielded until one raises
RECURSIVE yielded(_, _)
yielded(rs, i) ==
    IF i > Len(rs) \/ rs[i].raised # "none" THEN <<>>
    ELSE <<rs[i]>> \o yielded(rs, i + 1)

\* PupylImageSearch.search(query, top, return_metadata, return_distances),
\* consumed to its end; d = [meta, file, tree, is_new_index], the metadata of
\* the data directory and the Index the search opened on it
coord_search(d, query, top, return_metadata, return_distances) ==
    CHOOSE out \in {
        [results |-> yielded(rs, 1),
         raised |-> IF \E i \in 1 .. Len(rs) : rs[i].raised # "none"
                    THEN "IndexError" ELSE "none",
         file |-> exit([tree |-> d.tree, is_new_index |-> d.is_new_index,
                        file |-> d.file],
                       \E i \in 1 .. Len(rs) : rs[i].raised # "none")] :
          rs \in { [k \in 1 .. Len(found) |->
                       search_result(d.meta, found[k], return_metadata,
                                     return_distances)] :
                     found \in {index_search(d, extract([data |-> query.data]), top)} } } : TRUE

CoordSearch(query, top, return_metadata, return_distances) ==
    /\ ops < MaxCoordOps
    /\ \E o \in {open_index(file)} :
          \E r \in {coord_search([meta |-> meta, file |-> file, tree |-> o.tree,
                                   is_new_index |-> o.is_new_index],
                                  query, top, return_metadata, return_distances)} :
             /\ file' = r.file
             /\ last' = [op |-> "search", query |-> query, top |-> top,
                         return_metadata |-> return_metadata,
                         return_distances |-> return_distances,
                         results |-> r.results, raised |-> r.raised]
    /\ ops' = ops + 1
    /\ UNCHANGED <<tree, is_new_index, opened, images, meta, import_images, npy>>
    /\ UNCHANGED stepVars

SearchNext ==
    \/ \E batch \in Batches, check_unique \in BOOLEAN : CoordIndex(batch, check_unique)
    \/ \E query \in Sources, top \in 1 .. MaxTop, rm \in BOOLEAN, rd \in BOOLEAN :
          CoordSearch(query, top, rm, rd)

SpecSearch == CoordInit /\ [][SearchNext]_vars

----------------------------------------------------------------------------
(* The coordinator, extreme_mode=True: index() step by step, the tasks of   *)
(* the two worker pools interleaved in any order                            *)

ScanSources == {SrcA, SrcB, SrcDown, SrcLost, SrcText, SrcHard, SrcZero}
\* the sources index() is called on: any files up to MaxScan of them, and,
\* one file longer, the sources whose files are all images that go through
GoodSources == {SrcA, SrcB}
Scans ==
    UNION { [1 .. n -> ScanSources] : n \in 0 .. MaxScan }
        \cup [1 .. (MaxScan + 1) -> GoodSources]

\* ImageIO.scan_images over the files of the source: a file that cannot be
\* fetched raises out of the generator, a file that is no image is left out
RECURSIVE scan_images(_, _, _)
scan_images(files, i, uris) ==
    IF i > Len(files) THEN [uris |-> uris, raised |-> "none"]
    ELSE IF ~files[i].seen THEN [uris |-> uris, raised |-> "URLError"]
    ELSE scan_images(files, i + 1,
                     IF files[i].image THEN Append(uris, files[i]) ELSE uris)

\* sorted(ranks)
RECURSIVE sorted(_)
sorted(rs) ==
    IF rs = {} THEN <<>>
    ELSE CHOOSE s \in { <<m>> \o sorted(rs \ {m}) :
                          m \in {r \in rs : \A q \in rs : r <= q} } : TRUE

append_order_descending(rs) ==
    [i \in 1 .. Cardinality(rs) |-> sorted(rs)[Cardinality(rs) + 1 - i]]

\* the order in which index() appends the ranks
append_order(rs) == sorted(rs)

Range(s) == {s[i] : i \in 1 .. Len(s)}

\* the ranks, in the order of `rs`, that come before the first one without
\* metadata: the extraction tasks submitted before load_image_metadata raises
RECURSIVE with_metadata(_, _, _)
with_metadata(rs, md, i) ==
    IF i > Len(rs) \/ rs[i] \notin DOMAIN md THEN <<>>
    ELSE <<rs[i]>> \o with_metadata(rs, md, i + 1)

\* the appends made so far by the running index()
appends == SelectSeq(log, LAMBDA e : e.ev = "append")

all_done == \A r \in DOMAIN pool : pool[r] # "queued"

\* Index.flush(): what is in memory is built and saved
flush(h) == IF h.is_new_index THEN save(h.tree) ELSE h.file

\* Index.remove_feature_cache(rank): the cache slot of rank is deleted
remove_feature_cache(slots, rank) == delete(slots, rank)

\* index(uri, check_unique): the scan is walked and one import task per image
\* found is submitted to the first pool
ExtSubmitImports(files, cu) ==
    /\ pc = "idle"
    /\ ops < MaxExtOps
    /\ \E sc \in {scan_images(files, 1, <<>>)} :
          /\ pool' = [r \in 0 .. (Len(sc.uris) - 1) |-> "queued"]
          /\ last' = [op |-> "index", files |-> files, uris |-> sc.uris,
                      check_unique |-> cu, pending |-> sc.raised, raised |-> "none",
                      pre_npy |-> npy]
    /\ ranks' = <<>>
    /\ log' = <<>>
    /\ pc' = "import"
    /\ ops' = ops + 1
    /\ UNCHANGED <<tree, is_new_index, opened, file, images, meta, import_images,
                   npy, tmp_file>>

\* a worker runs image_database.insert(rank, uri); what it raises stays in the
\* future; the main thread notes the rank as the future completes
ExtImport(rank) ==
    /\ pc = "import"
    /\ rank \in DOMAIN pool
    /\ pool[rank] = "queued"
    /\ \E db \in {insert(Db, import_images, rank, last.uris[rank + 1])} :
          /\ images' = db.images
          /\ meta' = db.meta
          /\ pool' = [pool EXCEPT ![rank] = IF db.raised = "none" THEN "done"
                                            ELSE "failed"]
    /\ ranks' = IF last.pending = "none" THEN Append(ranks, rank) ELSE ranks
    /\ log' = Append(log, [ev |-> "import", rank |-> rank, by |-> "worker"])
    /\ UNCHANGED <<tree, is_new_index, opened, file, import_images, npy, last, ops,
                   pc, tmp_file>>

\* the first pool is left once all its tasks are over; the extraction tasks
\* are submitted, the main thread reading the metadata of each rank
ExtSubmitExtracts ==
    /\ pc = "import"
    /\ all_done
    /\ IF last.pending # "none"
       THEN /\ last' = [last EXCEPT !.raised = last.pending]
            /\ pc' = "done"
            /\ pool' = NoFiles
       ELSE \E sub \in {with_metadata(ranks, meta, 1)} :
               /\ pool' = [r \in Range(sub) |-> "queued"]
               /\ last' = [last EXCEPT !.pending =
                              IF Len(sub) < Len(ranks) THEN "FileIsNotImage"
                              ELSE "none"]
               /\ pc' = "extract"
    /\ UNCHANGED <<tree, is_new_index, opened, file, images, meta, import_images,
                   npy, ops, tmp_file, ranks, log>>

\* a worker runs extractor.extract_save(npy of rank, internal_path of rank)
ExtExtract(rank) ==
    /\ pc = "extract"
    /\ rank \in DOMAIN pool
    /\ pool[rank] = "queued"
    /\ \E c \in {extract_save([images |-> images, meta |-> meta, npy |-> npy,
                               raised |-> "none"], rank)} :
          /\ npy' = c.npy
          /\ pool' = [pool EXCEPT ![rank] = IF c.raised = "none" THEN "done"
                                            ELSE "failed"]
    /\ log' = Append(log, [ev |-> "extract", rank |-> rank, by |-> "worker"])
    /\ UNCHANGED <<tree, is_new_index, opened, file, images, meta, import_images,
                   last, ops, pc, tmp_file, ranks>>

\* the second pool is left once all its tasks are over
ExtStartAppends ==
    /\ pc = "extract"
    /\ all_done
    /\ IF last.pending # "none"
       THEN /\ last' = [last EXCEPT !.raised = last.pending]
            /\ pc' = "done"
       ELSE /\ last' = last
            /\ pc' = "append"
    /\ pool' = NoFiles
    /\ UNCHANGED <<tree, is_new_index, opened, file, images, meta, import_images,
                   npy, ops, tmp_file, ranks, log>>

\* for rank in sorted(ranks): self.indexer.append(extractor.load(npy of rank))
ExtAppend ==
    /\ pc = "append"
    /\ Len(appends) < Len(ranks)
    /\ \E rank \in {append_order(Range(ranks))[Len(appends) + 1]} :
          /\ log' = Append(log, [ev |-> "append", rank |-> rank, by |-> "main"])
          /\ IF rank \notin DOMAIN npy
             THEN /\ last' = [last EXCEPT !.raised = "FileNotFoundError"]
                  /\ pc' = "done"
                  /\ UNCHANGED <<tree, file>>
             ELSE \E r \in {append(Handle, npy[rank], last.check_unique)} :
                     /\ tree' = r.tree
                     /\ file' = r.file
                     /\ last' = [last EXCEPT !.raised = r.raised]
                     /\ pc' = IF r.raised = "none" THEN "append" ELSE "done"
    /\ UNCHANGED <<is_new_index, opened, images, meta, import_images, npy, ops,
                   tmp_file, ranks, pool>>

\* self.indexer.flush(), then one remove_feature_cache task per rank is
\* submitted to the third pool
ExtFlush ==
    /\ pc = "append"
    /\ Len(appends) = Len(ranks)
    /\ file' = flush(Handle)
    /\ pool' = [r \in Range(ranks) |-> "queued"]
    /\ pc' = "cleanup"
    /\ UNCHANGED <<tree, is_new_index, opened, images, meta, import_images, npy,
                   last, ops, tmp_file, ranks, log>>

\* a worker runs self.indexer.remove_feature_cache(rank)
ExtCleanup(rank) ==
    /\ pc = "cleanup"
    /\ rank \in DOMAIN pool
    /\ pool[rank] = "queued"
    /\ npy' = remove_feature_cache(npy, rank)
    /\ pool' = [pool EXCEPT ![rank] = "done"]
    /\ UNCHANGED <<tree, is_new_index, opened, file, images, meta, import_images,
                   last, ops, pc, tmp_file, ranks, log>>

\* the third pool is left, the configuration is written, index() returns
ExtReturn ==
    /\ pc = "cleanup"
    /\ all_done
    /\ pc' = "done"
    /\ pool' = NoFiles
    /\ UNCHANGED <<tree, is_new_index, opened, file, images, meta, import_images,
                   npy, last, ops, tmp_file, ranks, log>>

\* PupylImageSearch(extreme_mode=True) on a fresh data directory: the
\* coordinator holds an Index handle that is new
ExtInit ==
    /\ tree = <<>>
    /\ is_new_index = TRUE
    /\ opened = TRUE
    /\ file = NoFile
    /\ images = NoFiles
    /\ meta = NoFiles
    /\ import_images = TRUE
    /\ npy = NoFiles
    /\ last = NoLast
    /\ ops = 0
    /\ StepInit

ExtNext ==
    \/ \E files \in Scans, cu \in BOOLEAN : ExtSubmitImports(files, cu)
    \/ \E rank \in 0 .. MaxScan : ExtImport(rank)
    \/ ExtSubmitExtracts
    \/ \E rank \in 0 .. MaxScan : ExtExtract(rank)
    \/ ExtStartAppends
    \/ ExtAppend
    \/ ExtFlush
    \/ \E rank \in 0 .. MaxScan : ExtCleanup(rank)
    \/ ExtReturn

SpecExtreme == ExtInit /\ [][ExtNext]_vars

----------------------------------------------------------------------------
(* Index.append and Index.remove on a persisted index, step by step:        *)
(* the rebuild in a volatile index, its save on leaving the with-block,     *)
(* shutil.move of the scratch file over the index file, and the refresh     *)

\* the persisted indexes an operation starts from
StoredVectors == {v \in Vectors : ~is_null(v)}
StoredItems == UNION { [1 .. n -> StoredVectors] : n \in 0 .. MaxStored }

\* the index file while shutil.move copies the scratch file over it: opened
\* for writing (truncated), then the items written so far
partial(items) == [format |-> "partial", items |-> items]

\* the call enters: the volatile index is filled in memory; a raise inside the
\* with-block leaves without writing anything
SwapBegin(name, tensor, cu, position) ==
    /\ pc = "idle"
    /\ opened
    /\ ops < MaxSwapOps
    /\ name = "append" => len(tree) < MaxLen
    /\ \E r \in { IF name = "append" THEN append(Handle, tensor, cu)
                  ELSE remove(Handle, position) } :
          /\ last' = [op |-> name, tensor |-> tensor, check_unique |-> cu,
                      position |-> position, raised |-> r.raised,
                      pre_file |-> file, post_file |-> r.file]
          /\ pc' = IF r.raised = "none" THEN "rebuilt" ELSE "idle"
    /\ ops' = ops + 1
    /\ UNCHANGED <<tree, is_new_index, opened, file, images, meta, import_images,
                   npy, tmp_file, ranks, pool, log>>

\* tmp_idx.__exit__: build and save to the scratch path
SwapSave ==
    /\ pc = "rebuilt"
    /\ tmp_file' = last.post_file
    /\ pc' = "saved"
    /\ UNCHANGED <<tree, is_new_index, opened, file, images, meta, import_images,
                   npy, last, ops, ranks, pool, log>>

\* move(_temp_file, self.path) when os.rename succeeds: the scratch file takes
\* the place of the index file in one step
SwapRename ==
    /\ pc = "saved"
    /\ file' = tmp_file
    /\ tmp_file' = NoFile
    /\ pc' = "moved"
    /\ UNCHANGED <<tree, is_new_index, opened, images, meta, import_images,
                   npy, last, ops, ranks, pool, log>>

\* move(_temp_file, self.path) when os.rename raises OSError (the temporary
\* directory is on another filesystem than data_dir): shutil.move falls back to
\* copying, which opens the index file for writing
SwapCopyOpen ==
    /\ pc = "saved"
    /\ file' = partial(<<>>)
    /\ pc' = "copying"
    /\ UNCHANGED <<tree, is_new_index, opened, images, meta, import_images,
                   npy, last, ops, tmp_file, ranks, pool, log>>

\* the copy writes the next part of the scratch file, the last part completing it
SwapCopyWrite ==
    /\ pc = "copying"
    /\ IF Len(file.items) + 1 < Len(tmp_file.items)
       THEN /\ file' = partial(Append(file.items, tmp_file.items[Len(file.items) + 1]))
            /\ pc' = "copying"
       ELSE /\ file' = tmp_file
            /\ pc' = "copied"
    /\ UNCHANGED <<tree, is_new_index, opened, images, meta, import_images,
                   npy, last, ops, tmp_file, ranks, pool, log>>

\* the copy is followed by os.unlink of the scratch file
SwapUnlink ==
    /\ pc = "copied"
    /\ tmp_file' = NoFile
    /\ pc' = "moved"
    /\ UNCHANGED <<tree, is_new_index, opened, file, images, meta, import_images,
                   npy, last, ops, ranks, pool, log>>

\* self.refresh(): unload, load the index file
SwapRefresh ==
    /\ pc = "moved"
    /\ tree' = load(file)
    /\ pc' = "idle"
    /\ UNCHANGED <<is_new_index, opened, file, images, meta, import_images,
                   npy, last, ops, tmp_file, ranks, pool, log>>

\* the process dies in the middle of the operation; the files stay as they are
SwapCrash ==
    /\ pc \notin {"idle", "crashed"}
    /\ pc' = "crashed"
    /\ opened' = FALSE
    /\ tree' = <<>>
    /\ UNCHANGED <<is_new_index, file, images, meta, import_images,
                   npy, last, ops, tmp_file, ranks, pool, log>>

\* a handle open on a persisted index
SwapInit ==
    /\ \E items \in StoredItems : tree = items /\ file = save(items)
    /\ is_new_index = FALSE
    /\ opened = TRUE
    /\ images = NoFiles
    /\ meta = NoFiles
    /\ import_images = TRUE
    /\ npy = NoFiles
    /\ last = NoLast
    /\ ops = 0
    /\ StepInit

SwapNext ==
    \/ \E tensor \in Vectors, cu \in BOOLEAN : SwapBegin("append", tensor, cu, 0)
    \/ \E position \in Positions : SwapBegin("remove", <<>>, FALSE, position)
    \/ SwapSave
    \/ SwapRename
    \/ SwapCopyOpen
    \/ SwapCopyWrite
    \/ SwapUnlink
    \/ SwapRefresh
    \/ SwapCrash

SpecSwap == SwapInit /\ [][SwapNext]_vars

----------------------------------------------------------------------------
(* Index.__init__ under every configuration: data_dir absent, a directory   *)
(* or a regular file; volatile or not; the index file of the directory      *)
(* absent, saved by an earlier handle, cut short by an interrupted move, or *)
(* not an index at all                                                      *)

\* what data_dir is: not given, a directory (made if missing), a regular file
DataDirs == {"none", "directory", "file"}

\* a file at Index.path that no Index wrote
NotAnIndex == [format |-> "text", items |-> <<>>]

\* what can be at data_dir/pupyl.index when a handle is opened
IndexFiles ==
    {NoFile, NotAnIndex} \cup {save(items) : items \in StoredItems}
        \cup {partial(items) : items \in StoredItems}

\* os.path.isfile(self._data_dir)
isfile(data_dir) == data_dir = "file"

\* Index(size, data_dir=data_dir, volatile=volatile), f being the index file
\* of the data directory; a volatile handle gets the path safe_temp_file()
\* gives, where no file is
init_index(data_dir, volatile, f) ==
    IF data_dir # "none" /\ ~volatile
    THEN IF isfile(data_dir)
         THEN [tree |-> <<>>, is_new_index |-> FALSE, raised |-> "OSError"]
         ELSE open_index(f)
    ELSE IF data_dir = "none" /\ ~volatile
    THEN [tree |-> <<>>, is_new_index |-> FALSE,
          raised |-> "NoDataDirForPermanentIndex"]
    ELSE IF data_dir = "none" /\ volatile
    THEN open_index(NoFile)
    ELSE [tree |-> <<>>, is_new_index |-> FALSE,
          raised |-> "DataDirDefinedForVolatileIndex"]

OpenIndex(data_dir, volatile) ==
    /\ ~opened
    /\ \E o \in {init_index(data_dir, volatile, file)} :
          /\ tree' = o.tree
          /\ is_new_index' = o.is_new_index
          /\ opened' = (o.raised = "none")
          /\ last' = [op |-> "__init__", data_dir |-> data_dir,
                      volatile |-> volatile, raised |-> o.raised,
                      pre_file |-> file]
    /\ tmp_file' = NoFile
    /\ UNCHANGED <<file, images, meta, import_images, npy, ops, pc, ranks, pool, log>>

OpenInit ==
    /\ tree = <<>>
    /\ is_new_index = FALSE
    /\ opened = FALSE
    /\ file \in IndexFiles
    /\ images = NoFiles
    /\ meta = NoFiles
    /\ import_images = TRUE
    /\ npy = NoFiles
    /\ last = NoLast
    /\ ops = 0
    /\ StepInit

OpenNext == \E data_dir \in DataDirs, volatile \in BOOLEAN : OpenIndex(data_dir, volatile)

SpecOpen == OpenInit /\ [][OpenNext]_vars

----------------------------------------------------------------------------
(* Index.group_by on a handle that is open: built when the index was loaded *)
(* from its file, not built when the handle is new                          *)

\* the vectors a handle can hold when group_by is called
GroupItems == UNION { [1 .. n -> StoredVectors] : n \in 0 .. MaxGroupLen }
Tops == (0 - 1) .. MaxTop

\* results[1:]
rest(s) == SubSeq(s, 2, Len(s))

\* self.item(position, n): AnnoyIndex.get_nns_by_item searches from the roots
\* of the built trees, and finds nothing on an index that is not built
nns_of_item(h, position, n) ==
    IF h.is_new_index THEN <<>> ELSE item(h.tree, position, n)

emptiness_none_only(items) == len(items) < 1

\* if len(self) <= 1
emptiness(items) == len(items) <= 1

\* Index.group_by(top, position=position), consumed to its end: what it
\* raises and the groups it yielded before, each with the id it is about
group_by(h, top, has_position, position) ==
    IF emptiness(h.tree) THEN [raised |-> "EmptyIndexError", groups |-> <<>>]
    ELSE IF top >= 1
    THEN IF has_position
         THEN IF position \notin 0 .. (len(h.tree) - 1)
              THEN [raised |-> "IndexError", groups |-> <<>>]
              ELSE CHOOSE r \in { [raised |-> "none",
                                   groups |-> IF Len(results) > 1
                                              THEN <<[id |-> position,
                                                      ids |-> rest(results)]>>
                                              ELSE <<>>] :
                                     results \in {nns_of_item(h, position, top + 1)} } : TRUE
         ELSE [raised |-> "none",
               groups |-> [i \in 1 .. len(h.tree) |->
                              [id |-> i - 1,
                               ids |-> rest(nns_of_item(h, i - 1, top + 1))]]]
    ELSE [raised |-> "TopNegativeOrZero", groups |-> <<>>]

IdxGroupBy(top, has_position, position) ==
    /\ opened
    /\ \E r \in {group_by(Handle, top, has_position, position)} :
          last' = [op |-> "group_by", top |-> top, has_position |-> has_position,
                   position |-> position, raised |-> r.raised, groups |-> r.groups]
    /\ UNCHANGED <<tree, is_new_index, opened, file, images, meta, import_images,
                   npy, ops>>
    /\ UNCHANGED stepVars

\* a handle opened on a saved index, or a new one that vectors were appended to
GroupInit ==
    /\ tree \in GroupItems
    /\ is_new_index \in BOOLEAN
    /\ opened = TRUE
    /\ file = IF is_new_index THEN NoFile ELSE save(tree)
    /\ images = NoFiles
    /\ meta = NoFiles
    /\ import_images = TRUE
    /\ npy = NoFiles
    /\ last = NoLast
    /\ ops = 0
    /\ StepInit

GroupNext ==
    \/ \E top \in Tops : IdxGroupBy(top, FALSE, 0)
    \/ \E top \in Tops, position \in 0 .. MaxGroupLen : IdxGroupBy(top, TRUE, position)

SpecGroup == GroupInit /\ [][GroupNext]_vars

----------------------------------------------------------------------------
(* Index.__exit__ and the number of trees it builds; the trees argument of  *)
(* the handle is a fraction num/den                                         *)

\* the values of trees a handle is made with: the default .001, a half, one
Densities == {[num |-> 1, den |-> 1000], [num |-> 1, den |-> 2], [num |-> 1, den |-> 1]}

\* Index.size: the dimension the handle was made for
size == Len(Zero)

\* x << intmul >> y: int(x * y), or 1 when that is zero or below
intmul(x, y) ==
    IF (x * y.num) \div y.den <= 0 THEN 1 ELSE (x * y.num) \div y.den

\* the argument of self.tree.build in __exit__ and in append
n_trees(h, trees) == intmul(size, trees)

\* Index.__exit__(exc_type, ...): the trees built (0 when build is not
\* called), the index file and the items in memory afterwards
IdxExit(exc) ==
    /\ opened
    /\ last.op = "__init__"
    /\ file' = exit(Handle, exc)
    /\ tree' = IF exc THEN tree ELSE <<>>
    /\ opened' = FALSE
    /\ last' = [op |-> "__exit__", exc |-> exc, trees |-> last.trees,
                 raised |-> "none",
                 built |-> IF ~exc /\ is_new_index
                           THEN n_trees(Handle, last.trees) ELSE 0,
                 pre_tree |-> tree, pre_new |-> is_new_index, pre_file |-> file]
    /\ UNCHANGED <<is_new_index, images, meta, import_images, npy, ops>>
    /\ UNCHANGED stepVars

\* a handle made with some value of trees: opened on a saved index, or new
\* with the vectors appended to it in memory
ExitInit ==
    /\ tree \in GroupItems
    /\ is_new_index \in BOOLEAN
    /\ opened = TRUE
    /\ file = IF is_new_index THEN NoFile ELSE save(tree)
    /\ images = NoFiles
    /\ meta = NoFiles
    /\ import_images = TRUE
    /\ npy = NoFiles
    /\ \E trees \in Densities : last = [op |-> "__init__", raised |-> "none",
                                        trees |-> trees]
    /\ ops = 0
    /\ StepInit

ExitNext == \E exc \in BOOLEAN : IdxExit(exc)

SpecExit == ExitInit /\ [][ExitNext]_vars

----------------------------------------------------------------------------
(* PupylImageSearch.__init__: the import flag and the characteristic it     *)
(* settles on, from the sidecar index.json of the data directory and from   *)
(* the arguments of the call                                                *)

\* members of the enumeration Characteristics
MINIMUMWEIGHT_FAST_SMALL_PRECISION ==
    [name |-> "MINIMUMWEIGHT_FAST_SMALL_PRECISION", value |-> 1]
LIGHTWEIGHT_FAST_SMALL_PRECISION ==
    [name |-> "LIGHTWEIGHT_FAST_SMALL_PRECISION", value |-> 2]
LIGHTWEIGHT_FAST_SHORT_PRECISION ==
    [name |-> "LIGHTWEIGHT_FAST_SHORT_PRECISION", value |-> 3]
Characteristics ==
    {MINIMUMWEIGHT_FAST_SMALL_PRECISION, LIGHTWEIGHT_FAST_SMALL_PRECISION,
     LIGHTWEIGHT_FAST_SHORT_PRECISION}

\* Characteristics.by_name, Characteristics.by_value
by_name(name) == CHOOSE c \in Characteristics : c.name = name
by_value(value) == CHOOSE c \in Characteristics : c.value = value

\* index.json as _index_configuration('w') writes it, or no such file
NoSidecar == [exists |-> FALSE, import_images |-> FALSE, characteristic |-> ""]
Sidecars ==
    {NoSidecar} \cup
    { [exists |-> TRUE, import_images |-> i, characteristic |-> c.name] :
         i \in BOOLEAN, c \in Characteristics }

\* the keyword arguments of the call: each given or left out; the
\* characteristic given as a member, as its value or as its name
ImportArgs == [given : BOOLEAN, value : BOOLEAN]
CharacteristicArgs ==
    {[kind |-> "omitted", member |-> MINIMUMWEIGHT_FAST_SMALL_PRECISION]} \cup
    [kind : {"enum", "int", "str"}, member : Characteristics]

\* kwargs.get('import_images') is None when the argument is left out
truthy(arg) == arg.given /\ arg.value

\* if import_images: self._import_images = import_images / else: True
import_flag(arg) == IF truthy(arg) THEN arg.value ELSE TRUE

\* the isinstance chain over the characteristic argument
characteristic_of(arg) ==
    IF arg.kind = "enum" THEN arg.member
    ELSE IF arg.kind = "int" THEN by_value(arg.member.value)
    ELSE IF arg.kind = "str" THEN by_name(arg.member.name)
    ELSE MINIMUMWEIGHT_FAST_SMALL_PRECISION

\* the configuration __init__ settles on
resolve(sidecar, import_arg, characteristic_arg) ==
    IF sidecar.exists
    THEN [import_images |-> sidecar.import_images,
          characteristic |-> by_name(sidecar.characteristic)]
    ELSE [import_images |-> import_flag(import_arg),
          characteristic |-> characteristic_of(characteristic_arg)]

\* PupylImageSearch(data_dir, import_images=..., characteristic=...)
CoordConstruct ==
    /\ last.op = "call"
    /\ \E r \in {resolve(last.sidecar, last.import_arg, last.characteristic_arg)} :
          /\ import_images' = r.import_images
          /\ last' = [op |-> "configured", sidecar |-> last.sidecar,
                      import_arg |-> last.import_arg,
                      characteristic_arg |-> last.characteristic_arg,
                      characteristic |-> r.characteristic, raised |-> "none"]
    /\ UNCHANGED <<tree, is_new_index, opened, file, images, meta, npy, ops>>
    /\ UNCHANGED stepVars

\* a data directory with or without a sidecar, and a call about to be made
ConfigInit ==
    /\ tree = <<>>
    /\ is_new_index = FALSE
    /\ opened = FALSE
    /\ file = NoFile
    /\ images = NoFiles
    /\ meta = NoFiles
    /\ import_images = TRUE
    /\ npy = NoFiles
    /\ \E sc \in Sidecars, ia \in ImportArgs, ca \in CharacteristicArgs :
          last = [op |-> "call", sidecar |-> sc, import_arg |-> ia,
                  characteristic_arg |-> ca, raised |-> "none"]
    /\ ops = 0
    /\ StepInit

SpecConfig == ConfigInit /\ [][CoordConstruct]_vars

----------------------------------------------------------------------------
(* FileIO._get_url: one request per frame of the recursion, the server      *)
(* answering each request in any way; log keeps the latest MaxRequests      *)
(* requests of the call                                                     *)

\* what urlopen does with a request: the file is read, HTTPError with code
\* 403, HTTPError with another code, URLError
Responses == {"ok", "HTTPError403", "HTTPError", "URLError"}

\* _get_url(url): retry is 1 and no header is sent
FetchCall ==
    /\ pc = "idle"
    /\ pc' = "request"
    /\ log' = <<>>
    /\ last' = [op |-> "_get_url", retry |-> 1, headers |-> FALSE,
                 raised |-> "none", returned |-> "nothing"]
    /\ UNCHANGED <<tree, is_new_index, opened, file, images, meta, import_images,
                   npy, ops, tmp_file, ranks, pool>>

\* the frame _get_url(url, headers=..., retry=...) makes its request and the
\* server answers it: the frame returns, raises, or calls _get_url again
FetchRespond(response) ==
    /\ pc = "request"
    /\ \E made \in {[retry |-> last.retry, headers |-> last.headers,
                      response |-> response]} :
          log' = IF Len(log) < MaxRequests THEN Append(log, made)
                 ELSE Append(Tail(log), made)
    /\ IF response = "ok"
       THEN /\ last' = [last EXCEPT !.returned = "bytes"]
            /\ pc' = "done"
       ELSE IF response = "HTTPError403"
       THEN /\ last' = [last EXCEPT !.retry = 1, !.headers = TRUE]
            /\ pc' = "request"
       ELSE IF response = "HTTPError"
       THEN /\ last' = [last EXCEPT !.returned = "empty"]
            /\ pc' = "done"
       ELSE IF last.retry + 1 <= max_retries
       THEN /\ last' = [last EXCEPT !.retry = last.retry + 1, !.headers = FALSE]
            /\ pc' = "request"
       ELSE /\ last' = [last EXCEPT !.raised = "URLError"]
            /\ pc' = "done"
    /\ UNCHANGED <<tree, is_new_index, opened, file, images, meta, import_images,
                   npy, ops, tmp_file, ranks, pool>>

FetchNext ==
    \/ FetchCall
    \/ \E response \in Responses : FetchRespond(response)

\* no call has been made yet
SpecFetch == CoordInit /\ [][FetchNext]_vars

\* every request made is answered
SpecFetchLive == SpecFetch /\ WF_vars(FetchNext)

----------------------------------------------------------------------------
(* Properties of the vector index, checked under SpecIndex *)

\* the items of `items` without the one at id k, in order
Without(items, k) ==
    [i \in 1 .. (Len(items) - 1) |-> IF i <= k THEN items[i] ELSE items[i + 1]]

PersistedRemove == last.op = "remove" /\ ~last.pre_new
PersistedPop == last.op = "pop" /\ ~last.pre_new
NewAppend == last.op = "append" /\ last.pre_new

\* C3: on a persisted index of n vectors, remove(k) with 0 <= k < n succeeds,
\* the length becomes n-1, the vectors below k keep their ids and each vector
\* above k sits one id lower, in the same order; the file holds the same items.
C3_RemoveShiftsDown ==
    (PersistedRemove /\ last.position < Len(last.pre_tree)) =>
        /\ last.raised = "none"
        /\ len(tree) = Len(last.pre_tree) - 1
        /\ \A i \in 0 .. (len(tree) - 1) :
              tree[i + 1] = last.pre_tree[IF i < last.position THEN i + 1 ELSE i + 2]
        /\ file = save(tree)

C3_Witness ==
    /\ PersistedRemove
    /\ last.position > 0
    /\ last.position < Len(last.pre_tree) - 1
    /\ last.raised = "none"
    /\ last.pre_tree[1] # last.pre_tree[3]

\* C4: appending the all-zero vector raises NullTensorError and changes neither
\* the items nor the file, on a new index and on a persisted one, whatever
\* check_unique is.
C4_ZeroAppendRejected ==
    (last.op = "append" /\ last.tensor = Zero) =>
        /\ last.raised = "NullTensorError"
        /\ tree = last.pre_tree
        /\ file = last.pre_file

C4_Witness ==
    /\ last.op = "append"
    /\ last.tensor = Zero
    /\ ~last.pre_new
    /\ last.check_unique
    /\ Len(last.pre_tree) >= 2
    /\ last.raised = "NullTensorError"

\* C5 (as claimed): on a new index with check_unique off, every vector that is
\* not all-zero is appended at id = previous length and no error is raised.
C5_OnlyAllZeroRejected ==
    (NewAppend /\ ~last.check_unique /\ last.tensor # Zero) =>
        /\ last.raised = "none"
        /\ tree = Append(last.pre_tree, last.tensor)

\* C6 (as claimed): on a persisted index pop(id) with 0 <= id < length returns
\* the vector stored at id and leaves the index remove(id) leaves; pop() does
\* so for id = length-1.
C6_PopReturnsAndRemoves ==
    /\ (PersistedPop /\ last.has_position /\ last.position < Len(last.pre_tree)) =>
          /\ last.raised = "none"
          /\ last.ret = last.pre_tree[last.position + 1]
          /\ tree = Without(last.pre_tree, last.position)
    /\ (PersistedPop /\ ~last.has_position /\ Len(last.pre_tree) > 0) =>
          /\ last.raised = "none"
          /\ last.ret = last.pre_tree[Len(last.pre_tree)]
          /\ tree = Without(last.pre_tree, Len(last.pre_tree) - 1)

\* C7 (as claimed): on a persisted index of length n, remove(id) with id >= n
\* raises IndexError and leaves items and file unchanged.
C7_RemoveOutOfRangeRaises ==
    (PersistedRemove /\ last.position >= Len(last.pre_tree)) =>
        /\ last.raised = "IndexError"
        /\ tree = last.pre_tree
        /\ file = last.pre_file

\* C8: remove(id) on a new index holding nothing raises IndexNotBuildYet, not
\* the out-of-range IndexError, for every id, and changes nothing.
C8_RemoveOnNewIndexNotBuilt ==
    (last.op = "remove" /\ last.pre_new /\ last.pre_tree = <<>>) =>
        /\ last.raised = "IndexNotBuildYet"
        /\ last.raised # "IndexError"
        /\ tree = <<>>
        /\ file = last.pre_file

C8_Witness ==
    /\ last.op = "remove"
    /\ last.pre_new
    /\ last.pre_tree = <<>>
    /\ last.position > 0
    /\ last.raised = "IndexNotBuildYet"

\* some stored vector lies within angular distance .05 of v
NearStored(items, v) == \E i \in 1 .. Len(items) : WithinDup(v, items[i])

\* C9 (as claimed): on a new index holding at least one vector, append(v,
\* check_unique=true) of a v within .05 of a stored vector inserts nothing and
\* warns.
C9_DuplicateSkipped ==
    (NewAppend /\ last.check_unique /\ Len(last.pre_tree) >= 1
        /\ NearStored(last.pre_tree, last.tensor)) =>
        /\ tree = last.pre_tree
        /\ last.warned

\* C10 (as claimed, for the vectors the null test lets through): on a new
\* index, append(v, check_unique=true) of a v farther than .05 from every
\* stored vector inserts v at the next id and does not warn.
C10_DistinctInserted ==
    (NewAppend /\ last.check_unique /\ last.tensor # Zero /\ ~is_null(last.tensor)
        /\ ~NearStored(last.pre_tree, last.tensor)) =>
        /\ last.raised = "none"
        /\ tree = Append(last.pre_tree, last.tensor)
        /\ ~last.warned

PersistedAppend == last.op = "append" /\ ~last.pre_new

\* C11: on a persisted index of n vectors, append(v, check_unique) of a non-zero
\* v (one the null test lets through) leaves the vectors at ids 0..n-1 as they
\* were, for either check_unique; with check_unique=false the result is the old
\* items followed by v at id n.
C11_PersistedAppendKeepsStored ==
    (PersistedAppend /\ last.tensor # Zero /\ ~is_null(last.tensor)) =>
        /\ \A i \in 1 .. Len(last.pre_tree) :
              i <= len(tree) /\ tree[i] = last.pre_tree[i]
        /\ ~last.check_unique => tree = Append(last.pre_tree, last.tensor)

\* C12: the non-zero vectors appended to a newly created permanent index are
\* stored in the order of the appends (each at the id that was the length), and
\* closing the index and opening the same directory again gives a built index
\* with exactly these vectors at these ids.
C12_RoundTrip ==
    /\ (NewAppend /\ ~last.check_unique /\ last.tensor # Zero) =>
          /\ last.raised = "none"
          /\ len(tree) = Len(last.pre_tree) + 1
          /\ \A i \in 1 .. Len(last.pre_tree) : tree[i] = last.pre_tree[i]
          /\ tree[len(tree)] = last.tensor
    /\ (last.op = "open" /\ last.prev.op = "close" /\ last.prev.pre_new) =>
          /\ ~is_new_index
          /\ len(tree) = Len(last.prev.pre_tree)
          /\ \A i \in 1 .. len(tree) : tree[i] = last.prev.pre_tree[i]

\* the reopening half of C12 alone: what close saves of a new index is what the
\* next open loads
Reopened ==
    (last.op = "open" /\ last.prev.op = "close" /\ last.prev.pre_new) =>
        ~is_new_index /\ tree = last.prev.pre_tree

\* C28: on a handle that is new and holds n >= 1 vectors appended through it,
\* remove(k) with 0 <= k < n does not raise IndexNotBuildYet: entry k is
\* removed and the length becomes n-1.
C28_RemoveAfterAppendOnNew ==
    (last.op = "remove" /\ last.pre_new /\ Len(last.pre_tree) >= 1
        /\ last.position < Len(last.pre_tree)) =>
        /\ last.raised # "IndexNotBuildYet"
        /\ last.raised = "none"
        /\ tree = Without(last.pre_tree, last.position)

----------------------------------------------------------------------------
(* Properties of the rebuild-and-replace steps, checked under SpecSwap *)

\* C13: from the start of an append or remove on a persisted index to its end,
\* and after a crash at any step, the index file holds the complete index of
\* before the operation or the complete index of after it.
C13_LiveFileWhole ==
    pc # "idle" => file \in {last.pre_file, last.post_file}

----------------------------------------------------------------------------
(* Properties of the parallel index(), checked under SpecExtreme *)

\* a file that index() can import, extract and append
Good(src) ==
    /\ src.seen /\ src.image /\ src.reachable
    /\ ~extract_raises([data |-> src.data])
    /\ ~is_null(extract([data |-> src.data]))

Returned == pc = "done" /\ last.op = "index"

\* C14: when the only failures of an index() call are items failing in the
\* import or in the extraction (no append fails), the call returns normally
\* and the embedding of every item that did not fail is in the index, which
\* holds nothing else.  Stated for check_unique=false, where nothing is left
\* out as a duplicate.
C14_ItemFailureSkipped ==
    (Returned /\ ~last.check_unique
        /\ \A i \in 1 .. Len(last.files) : last.files[i].data # "Z") =>
        /\ last.raised = "none"
        /\ len(tree) = Len(SelectSeq(last.files, Good))
        /\ \A i \in 1 .. Len(last.files) :
              Good(last.files[i]) =>
                  \E k \in 1 .. len(tree) : tree[k] = extract([data |-> last.files[i].data])

\* C15: when an append of index() raises, the error reaches the caller and the
\* feature cache holds no slot that this call created.
C15_SlotsDeletedOnAppendFailure ==
    (Returned /\ last.raised = "NullTensorError") => npy = last.pre_npy

\* C16: the appends of index() are made by the main thread, in strictly
\* ascending rank order, and no import or extraction task runs after the first
\* append: every import task and every extraction task submitted is over by then.
C16_AppendsAfterTasksInOrder ==
    /\ \A i \in 1 .. Len(log) :
          log[i].ev = "append" =>
              /\ log[i].by = "main"
              /\ \A j \in (i + 1) .. Len(log) :
                    log[j].ev = "append" /\ log[i].rank < log[j].rank
    /\ Len(appends) > 0 =>
          /\ \A r \in 0 .. (Len(last.uris) - 1) :
                \E i \in 1 .. Len(log) : log[i].ev = "import" /\ log[i].rank = r
          /\ \A r \in Range(ranks) :
                \E i \in 1 .. Len(log) : log[i].ev = "extract" /\ log[i].rank = r
          /\ pc = "append" => all_done

C16_Witness ==
    /\ Returned
    /\ last.raised = "none"
    /\ ranks = <<1, 0>>
    /\ Len(appends) = 2
    /\ appends[1].rank = 0
    /\ len(tree) = 2

\* C17: after index() returned on a data directory that was empty, with
\* check_unique true or false, every id i of the index has a record in the
\* store, the image stored under i is the one made from the i-th file of the
\* scan, and the vector the index holds at i is the embedding of that image.
C17_IndexIdsMatchStore ==
    (Returned /\ last.raised = "none") =>
        \A i \in 0 .. (len(tree) - 1) :
            /\ i \in DOMAIN meta
            /\ meta[i].id = i
            /\ meta[i].internal_path \in DOMAIN images
            /\ images[meta[i].internal_path] = stored_bytes(last.uris[i + 1])
            /\ tree[i + 1] = extract(images[meta[i].internal_path])

\* index() of three images with check_unique=True returned: the workers
\* imported them out of order, and the third append was refused
C17_Witness ==
    /\ Returned
    /\ last.raised = "none"
    /\ last.check_unique
    /\ Len(last.uris) = 3
    /\ ranks[1] # 0
    /\ Cardinality(DOMAIN meta) = 3
    /\ len(tree) = 2
    /\ tree[1] # tree[2]

----------------------------------------------------------------------------
(* Properties of Index.group_by, checked under SpecGroup *)

GroupedBy == last.op = "group_by"

Min(a, b) == IF a <= b THEN a ELSE b

\* C21: consuming group_by raises EmptyIndexError when the index holds 0 or 1
\* items, raises TopNegativeOrZero when top <= 0 on an index of more than one
\* item, and yields no group in either case.
C21_GroupByErrors ==
    GroupedBy =>
        /\ len(tree) <= 1 =>
              last.raised = "EmptyIndexError" /\ last.groups = <<>>
        /\ (len(tree) > 1 /\ last.top <= 0) =>
              last.raised = "TopNegativeOrZero" /\ last.groups = <<>>

\* group_by was consumed with a valid top on an index of one item, and raised
C21_Witness ==
    /\ GroupedBy
    /\ len(tree) = 1
    /\ last.top >= 1
    /\ last.raised = "EmptyIndexError"

\* the group g is about id i and holds min(top, n-1) neighbour ids, i not
\* among them
GroupOf(g, i) ==
    /\ g.id = i
    /\ Len(g.ids) = Min(last.top, len(tree) - 1)
    /\ \A k \in 1 .. Len(g.ids) : g.ids[k] # i /\ g.ids[k] \in 0 .. (len(tree) - 1)

\* C22: on an index of n > 1 items with top >= 1, group_by(top) yields one
\* group per id in ascending id order, each of exactly min(top, n-1) neighbour
\* ids without the id itself; with position=p it yields that one group for p.
C22_GroupByGroups ==
    (GroupedBy /\ len(tree) > 1 /\ last.top >= 1
        /\ (last.has_position => last.position < len(tree))) =>
        /\ last.raised = "none"
        /\ IF last.has_position
           THEN Len(last.groups) = 1 /\ GroupOf(last.groups[1], last.position)
           ELSE /\ Len(last.groups) = len(tree)
                /\ \A i \in 1 .. Len(last.groups) : GroupOf(last.groups[i], i - 1)

----------------------------------------------------------------------------
(* Properties of Index.__exit__, checked under SpecExit *)

Max(a, b) == IF a >= b THEN a ELSE b

\* C23: when a new, not yet built handle is closed without an error, the index
\* is built with max(1, floor(trees * item_count)) trees, item_count being
\* the number of vectors it holds, and is then saved.
C23_TreeCountOnClose ==
    (last.op = "__exit__" /\ ~last.exc /\ last.pre_new) =>
        /\ last.built =
              Max(1, (last.trees.num * Len(last.pre_tree)) \div last.trees.den)
        /\ file = save(last.pre_tree)

----------------------------------------------------------------------------
(* Properties of Index.__init__, checked under SpecOpen *)

\* what the configuration of the last __init__ has to raise
ExpectedOpenError ==
    IF ~last.volatile /\ last.data_dir = "none" THEN "NoDataDirForPermanentIndex"
    ELSE IF last.volatile /\ last.data_dir # "none"
    THEN "DataDirDefinedForVolatileIndex"
    ELSE IF ~last.volatile /\ last.data_dir = "file" THEN "OSError"
    ELSE IF ~last.volatile /\ last.pre_file.format \notin {"none", "annoy"}
    THEN "FileIsNotAnIndex"
    ELSE "none"

\* C20: opening an Index raises NoDataDirForPermanentIndex for a permanent
\* index without data_dir, DataDirDefinedForVolatileIndex for a volatile one
\* with data_dir, OSError for a permanent one whose data_dir is a regular
\* file, FileIsNotAnIndex when the index file there is not a saved index, and
\* nothing in any other configuration, where the handle is new if there was
\* no index file and holds the items of the file if there was one.
C20_OpenErrors ==
    last.op = "__init__" =>
        /\ last.raised = ExpectedOpenError
        /\ opened = (last.raised = "none")
        /\ opened =>
              IF last.volatile \/ last.pre_file.format = "none"
              THEN is_new_index /\ tree = <<>>
              ELSE ~is_new_index /\ tree = last.pre_file.items

\* a permanent handle was opened on a directory whose index file was cut
\* short, and the open raised
C20_Witness ==
    /\ last.op = "__init__"
    /\ ~last.volatile
    /\ last.data_dir = "directory"
    /\ last.pre_file.format = "partial"
    /\ last.raised = "FileIsNotAnIndex"
    /\ ~opened

----------------------------------------------------------------------------
(* Properties of PupylImageSearch.__init__, checked under SpecConfig *)

\* C24: with a sidecar in the data directory the import flag and the
\* characteristic are the ones it records, whatever the arguments; without
\* one they are the arguments passed, import_images defaulting to true and
\* the characteristic to MINIMUMWEIGHT_FAST_SMALL_PRECISION when left out.
C24_ConfigurationResolved ==
    last.op = "configured" =>
        IF last.sidecar.exists
        THEN /\ import_images = last.sidecar.import_images
             /\ last.characteristic.name = last.sidecar.characteristic
        ELSE /\ import_images =
                   (IF last.import_arg.given THEN last.import_arg.value ELSE TRUE)
             /\ last.characteristic =
                   (IF last.characteristic_arg.kind = "omitted"
                    THEN MINIMUMWEIGHT_FAST_SMALL_PRECISION
                    ELSE last.characteristic_arg.member)

----------------------------------------------------------------------------
(* Properties of the coordinator's search, checked under SpecSearch *)

\* C25: search(query, k, return_metadata=True, return_distances=True) yields
\* for every result a metadata mapping with a distance field that is the
\* distance of that result, zero or not.
C25_MetadataCarriesDistance ==
    (last.op = "search" /\ last.return_metadata /\ last.return_distances) =>
        \A i \in 1 .. Len(last.results) :
            /\ last.results[i].has_distance
            /\ last.results[i].distance =
                  distance(extract([data |-> last.query.data]),
                           load(file)[last.results[i].id + 1])

----------------------------------------------------------------------------
(* Properties of the image store, checked under SpecStore *)

\* the store holds exactly the records 0..n-1: metadata for each id, its
\* payload at the path the metadata names, and nothing else
HoldsRecords(files, md, n) ==
    /\ DOMAIN md = 0 .. (n - 1)
    /\ \A id \in DOMAIN md :
          /\ md[id].id = id
          /\ md[id].internal_path \in DOMAIN files
          /\ md[id].internal_path.name = id
    /\ db_len(files) = n
    /\ Cardinality(DOMAIN files) = n

\* C2 (as claimed): on a store holding records 0..n-1, remove(k) with
\* 0 <= k < n returns normally, count() becomes n-1 and each record formerly
\* at j > k is at j-1 with its payload and its original file name.
C2_StoreRemoveShifts ==
    LET n == Cardinality(DOMAIN last.pre_meta)
    IN  (last.op = "db_remove" /\ HoldsRecords(last.pre_images, last.pre_meta, n)
            /\ last.id < n) =>
            /\ last.raised = "none"
            /\ db_len(images) = n - 1
            /\ \A j \in (last.id + 1) .. (n - 1) :
                  /\ (j - 1) \in DOMAIN meta
                  /\ meta[j - 1].id = j - 1
                  /\ meta[j - 1].original_file_name = last.pre_meta[j].original_file_name
                  /\ meta[j - 1].internal_path \in DOMAIN images
                  /\ images[meta[j - 1].internal_path] =
                        last.pre_images[last.pre_meta[j].internal_path]

\* C18: whenever insert(id, uri) returns without raising, import enabled or
\* not, the store holds a metadata record for id whose id field is id and
\* whose internal_path lies in the bucket directory id // bucket_size.
C18_InsertWritesMetadata ==
    (last.op = "db_insert" /\ last.raised = "none") =>
        /\ last.id \in DOMAIN meta
        /\ meta[last.id].id = last.id
        /\ meta[last.id].internal_path.bucket = last.id \div BucketSize

\* the store holds one image per record, at the path the record names, each
\* made from a valid image file
OneImagePerRecord ==
    /\ \A id \in DOMAIN meta : meta[id].internal_path \in DOMAIN images
    /\ DOMAIN images = {meta[id].internal_path : id \in DOMAIN meta}
    /\ Cardinality(DOMAIN images) = Cardinality(DOMAIN meta)

\* C19: after an insert into a store with import enabled that holds one
\* image per inserted id, each of a recognized image type (JPG, GIF, PNG),
\* count() is the number of stored images.
C19_CountIsStored ==
    (import_images /\ last.op = "db_insert" /\ last.raised = "none"
        /\ last.src.image /\ OneImagePerRecord) =>
        db_len(images) = Cardinality(DOMAIN images)

\* C29: remove(k) of the store leaves every record with an id below k as it
\* was, metadata and payload, with import enabled or disabled.
C29_RemoveKeepsLowerRecords ==
    last.op = "db_remove" =>
        \A id \in DOMAIN last.pre_meta :
            id < last.id =>
                /\ id \in DOMAIN meta
                /\ meta[id] = last.pre_meta[id]
                /\ last.pre_meta[id].internal_path \in DOMAIN last.pre_images =>
                      /\ meta[id].internal_path \in DOMAIN images
                      /\ images[meta[id].internal_path] =
                            last.pre_images[meta[id].internal_path]

----------------------------------------------------------------------------
(* Properties of the coordinator, checked under Spec *)

\* the vectors of the persisted index, none when no index file exists
IndexItems == IF file.format = "none" THEN <<>> ELSE load(file)

\* C1 (as claimed): after every completed index() or remove() of the
\* coordinator the vector index and the image store hold the same number N of
\* entries, and the ids with a record in the store are exactly 0..N-1.
C1_DenseIdsInBothStores ==
    LET N == Len(IndexItems)
    IN  /\ db_len(images) = N
        /\ DOMAIN meta = 0 .. (N - 1)

\* C26: an index() call leaves every record the data directory already
\* held as it was: the same metadata under the same id, and the same payload
\* at the path that metadata names.
C26_IndexKeepsStoredRecords ==
    [][ (ops' = ops + 1 /\ last'.op = "index") =>
            \A id \in DOMAIN meta :
                /\ id \in DOMAIN meta'
                /\ meta'[id] = meta[id]
                /\ meta[id].internal_path \in DOMAIN images =>
                      /\ meta[id].internal_path \in DOMAIN images'
                      /\ images'[meta[id].internal_path] = images[meta[id].internal_path]
      ]_vars

\* what Index.remove(id) does on the index of the data directory as it is
IndexRemoval(id) ==
    remove([tree |-> open_index(file).tree,
            is_new_index |-> open_index(file).is_new_index, file |-> file], id)

\* C27 (checked under SpecRemove): when the removal from the vector index
\* raises, remove(id) of the coordinator raises that same error and the image
\* store is exactly as it was: the store is only touched after the index
\* removal went through.
C27_RemoveFailsFast ==
    [][ (ops' = ops + 1 /\ last'.op = "coord_remove"
            /\ IndexRemoval(last'.id).raised # "none") =>
            /\ last'.raised = IndexRemoval(last'.id).raised
            /\ images' = images
            /\ meta' = meta
            /\ file' = file
      ]_vars

\* remove(id) raised IndexError from the index, beyond its length, on a data
\* directory whose store holds records
C27_Witness ==
    /\ last.op = "coord_remove"
    /\ last.raised = "IndexError"
    /\ last.id > Len(IndexItems)
    /\ DOMAIN meta # {}
    /\ DOMAIN images # {}

----------------------------------------------------------------------------
(* Properties of FileIO._get_url, checked under SpecFetchLive *)

\* when every request of a call failed with URLError the call raised URLError
\* after max_retries requests (a log shorter than MaxRequests is the whole call)
FetchAllUrlErrors ==
    (pc = "done" /\ last.op = "_get_url" /\ Len(log) < MaxRequests
        /\ \A i \in 1 .. Len(log) : log[i].response = "URLError") =>
        /\ Len(log) = max_retries
        /\ last.raised = "URLError"

====
